---- MODULE Spec2Model ----
(***************************************************************************)
(* A model of celery_redis_sentinel/backend.py: RedisSentinelBackend.      *)
(*                                                                         *)
(*   Spec       construction of the backend (__init__) and the lazily      *)
(*              built, cached client, accessed by several threads.         *)
(*   SpecExec   the failover-aware executor the client is composed with     *)
(*              (EnsuredRedisMixin, defined in redis_sentinel, outside the  *)
(*              sources at hand), as section 4.2 of the specification       *)
(*              describes it.                                              *)
(*   SpecCodec  the exception envelope codec (_wrap_exc, _unwrap_exc,      *)
(*              _get_module) applied to bounded sets of exception objects  *)
(*              and wire texts.                                            *)
(***************************************************************************)
EXTENDS Integers, Sequences, FiniteSets, TLC

VARIABLES
    py,          \* major version of the interpreter running the backend (2 or 3)
    sameProcess, \* TRUE: _unwrap_exc runs in the process that ran _wrap_exc
    exc,         \* the exception object handed to the codec
    cpc,         \* codec position: "start", "wrapped", "done"
    wire,        \* outcome of _wrap_exc(exc) (or the value read from the store)
    wrapFailed,  \* the try body of _wrap_exc raised
    producer,    \* which capability produced the envelope's data
    out,         \* outcome of _unwrap_exc
    unwrapFailed,\* the try body of _unwrap_exc raised
    decoder      \* which capability _unwrap_exc applied to the envelope's data

codecVars == <<py, sameProcess, exc, cpc, wire, wrapFailed, producer, out,
               unwrapFailed, decoder>>

VARIABLES
    argOptions,  \* the transport_options argument of __init__
    confOptions, \* app.conf.get('CELERY_RESULT_BACKEND_TRANSPORT_OPTIONS')
    conn0,       \* connparams as the base class's __init__ left them
    bpc,         \* "new", "ready" (constructed) or "failed" (__init__ raised)
    error,       \* the exception __init__ raised, "none" if none
    self,        \* the backend's __dict__
    connparams,  \* the dict self.connparams refers to
    clients,     \* the parameters of each call of the client factory, in order
    tpc,         \* each thread's position in the client property's __get__
    tval,        \* the client a thread built and has not stored yet
    accesses,    \* how many accesses of backend.client each thread completed
    seen         \* the clients returned to callers so far

backendVars == <<argOptions, confOptions, conn0, bpc, error, self, connparams,
                 clients, tpc, tval, accesses, seen>>

VARIABLES
    attemptBound,\* the executor's configured bound on attempts per command
    nFail,       \* the primary fails the first nFail sends of the command
    failKind,    \* ... with this error
    finalResp,   \* ... and answers the next send with this
    sentinelUp,  \* a Sentinel is reachable and names a primary
    epc,         \* executor position: "idle", "resolve", "send", "failover", "done"
    endpoint,    \* the cached endpoint: 0 if none, else the primary's generation
    sends,       \* how often the command was sent
    invalidations,  \* how often the cached endpoint was invalidated
    reresolutions,  \* how often the endpoint was resolved again after a failure
    outcome      \* what execute returned or raised

execVars == <<attemptBound, nFail, failKind, finalResp, sentinelUp, epc, endpoint,
              sends, invalidations, reresolutions, outcome>>

vars == <<codecVars, backendVars, execVars>>

-----------------------------------------------------------------------------
(* Python values.  A text is a sequence of tokens; every value is a record  *)
(* of one shape so that values of different types can be compared.          *)

PyStr(s) == [t |-> "str", cls |-> "str", v |-> s]
PyBytes(s) == [t |-> "bytes", cls |-> "bytes", v |-> s]
PyNone == [t |-> "none", cls |-> "NoneType", v |-> <<>>]
PyInt == [t |-> "int", cls |-> "int", v |-> <<"1">>]
PyObject == [t |-> "object", cls |-> "object", v |-> <<>>]
PyExc(c, m) == [t |-> "exc", cls |-> c, v |-> m]

\* The outcome of evaluating an expression: a value, or a raised exception.
Ok(x) == [ok |-> TRUE, val |-> x, err |-> "none"]
Raise(k) == [ok |-> FALSE, val |-> PyNone, err |-> k]

\* str(x)
Str(x) ==
    CASE x.t = "none" -> <<"None">>
      [] x.t = "object" -> <<"object">>
      [] OTHER -> x.v

-----------------------------------------------------------------------------
(* The exception classes of the bounded universe.                           *)
(*   name, module   type(e).__name__, type(e).__module__ ("None": no module) *)
(*   hasSerialize   hasattr(e, 'serialize')                                 *)
(*   hasDeserialize hasattr(cls, 'deserialize')                             *)
(*   serialize      what e.serialize() does: returns "text", "bytes" or an  *)
(*                  "object" json cannot encode, or raises ("raise": an     *)
(*                  Exception; "exit": SystemExit, a BaseException)         *)
(*   deserialize    what cls.deserialize(data) does: "inverse" of serialize *)
(*                  or "raise"                                              *)

Cls(n, m, hs, hd, s, d) ==
    [name |-> n, module |-> m, hasSerialize |-> hs, hasDeserialize |-> hd,
     serialize |-> s, deserialize |-> d]

ClassIds ==
    {"SerErr", "BytesErr", "NestedErr", "RaiseErr", "ExitErr", "ObjErr",
     "BadDeser", "MyError", "LocalErr", "SerOnly", "DeserOnly", "NoModErr",
     "WorkerErr", "WorkerPlain", "OldErr", "DupErr", "Exception"}

ClassTable ==
    [c \in ClassIds |->
        CASE c = "SerErr"    -> Cls("SerErr", "app", TRUE, TRUE, "text", "inverse")
          [] c = "BytesErr"  -> Cls("BytesErr", "app", TRUE, TRUE, "bytes", "inverse")
          [] c = "NestedErr" -> Cls("NestedErr", "app", TRUE, TRUE, "text", "inverse")
          [] c = "RaiseErr"  -> Cls("RaiseErr", "app", TRUE, TRUE, "raise", "inverse")
          [] c = "ExitErr"   -> Cls("ExitErr", "app", TRUE, TRUE, "exit", "inverse")
          [] c = "ObjErr"    -> Cls("ObjErr", "app", TRUE, TRUE, "object", "inverse")
          [] c = "BadDeser"  -> Cls("BadDeser", "app", TRUE, TRUE, "text", "raise")
          [] c = "MyError"   -> Cls("MyError", "app", FALSE, FALSE, "none", "none")
          [] c = "LocalErr"  -> Cls("LocalErr", "app", FALSE, FALSE, "none", "none")
          [] c = "SerOnly"   -> Cls("SerOnly", "app", TRUE, FALSE, "text", "none")
          [] c = "DeserOnly" -> Cls("DeserOnly", "app", FALSE, TRUE, "none", "inverse")
          [] c = "NoModErr"  -> Cls("NoModErr", "None", TRUE, TRUE, "text", "inverse")
          [] c = "WorkerErr" -> Cls("WorkerErr", "worker", TRUE, TRUE, "text", "inverse")
          [] c = "OldErr"    -> Cls("DupErr", "app", TRUE, TRUE, "text", "inverse")
          [] c = "DupErr"    -> Cls("DupErr", "app", TRUE, TRUE, "text", "inverse")
          [] c = "WorkerPlain" -> Cls("WorkerPlain", "worker", FALSE, FALSE, "none", "none")
          [] c = "Exception" -> Cls("Exception", "builtins", FALSE, FALSE, "none", "none")]

\* The classes bound, under their own __name__, as an attribute of their
\* module.  NestedErr is defined inside another class, LocalErr inside a
\* function, NoModErr has no module, and OldErr was rebound: app.DupErr is
\* the later class DupErr.
TopLevel == ClassIds \ {"NestedErr", "LocalErr", "NoModErr", "OldErr"}

\* sys.modules, and what import_module can load, where the call runs.  The
\* process that raised the exception has the modules of its classes loaded;
\* another process has not imported "app" yet and has no module "worker".
LoadedModules(same) == IF same THEN {"app", "worker", "builtins"} ELSE {"builtins"}
ImportableModules(same) == IF same THEN {"app", "worker", "builtins"} ELSE {"app", "builtins"}

\* getattr(module, name): the class bound to name in module, or "absent".
ModuleAttr(m, n) ==
    LET found == {c \in TopLevel : ClassTable[c].module = m /\ ClassTable[c].name = n}
    IN  IF found = {} THEN "absent" ELSE CHOOSE c \in found : TRUE

-----------------------------------------------------------------------------
(* json.dumps / json.loads on the token texts.                              *)

Special == {"QUOTE", "BSLASH"}

\* A string literal written without escaping its quotes and backslashes.
EscapeNothing(s) == s

\* The body of a JSON string literal: quotes and backslashes are escaped.
RECURSIVE Escape(_)
Escape(s) ==
    IF s = <<>> THEN <<>>
    ELSE (IF Head(s) \in Special THEN <<"BSLASH", Head(s)>> ELSE <<Head(s)>>)
         \o Escape(Tail(s))

\* json.dumps of one value.  Python 2's str is a byte string and is encoded
\* as text; Python 3's bytes is not JSON serializable.
JsonDumpsValue(x, ver) ==
    CASE x.t = "str" -> Ok(PyStr(<<"QUOTE">> \o Escape(x.v) \o <<"QUOTE">>))
      [] x.t = "bytes" ->
            IF ver = 2 THEN Ok(PyStr(<<"QUOTE">> \o Escape(x.v) \o <<"QUOTE">>))
            ELSE Raise("TypeError")
      [] x.t = "none" -> Ok(PyStr(<<"NULL">>))
      [] x.t = "int" -> Ok(PyStr(x.v))
      [] OTHER -> Raise("TypeError")

\* json.dumps({'type': ty, 'module': mo, 'data': da})
JsonDumps(ty, mo, da, ver) ==
    LET a == JsonDumpsValue(ty, ver)
        b == JsonDumpsValue(mo, ver)
        c == JsonDumpsValue(da, ver)
    IN  IF ~a.ok THEN a
        ELSE IF ~b.ok THEN b
        ELSE IF ~c.ok THEN c
        ELSE Ok(PyStr(<<"LBRACE", "type">> \o a.val.v \o <<"module">> \o b.val.v
                      \o <<"data">> \o c.val.v \o <<"RBRACE">>))

NoFields == [k \in {} |-> PyNone]
Parsed(kind, f) == [ok |-> TRUE, kind |-> kind, f |-> f, err |-> "none"]
ParseError == [ok |-> FALSE, kind |-> "none", f |-> NoFields, err |-> "ValueError"]

\* The string literal whose opening quote precedes position i: its value and
\* the position after its closing quote.
RECURSIVE ParseString(_, _, _)
ParseString(s, i, acc) ==
    IF i > Len(s) THEN [ok |-> FALSE, val |-> <<>>, next |-> i]
    ELSE IF s[i] = "QUOTE" THEN [ok |-> TRUE, val |-> acc, next |-> i + 1]
    ELSE IF s[i] = "BSLASH" THEN
        IF i + 1 <= Len(s) /\ s[i + 1] \in Special
        THEN ParseString(s, i + 2, Append(acc, s[i + 1]))
        ELSE [ok |-> FALSE, val |-> <<>>, next |-> i]
    ELSE ParseString(s, i + 1, Append(acc, s[i]))

\* The members of an object from position i on; a repeated key keeps its
\* last value, and nothing may follow the closing brace.
RECURSIVE ParseMembers(_, _, _)
ParseMembers(s, i, f) ==
    IF i > Len(s) THEN ParseError
    ELSE IF s[i] = "RBRACE" THEN (IF i = Len(s) THEN Parsed("object", f) ELSE ParseError)
    ELSE IF s[i] \in Special \cup {"LBRACE", "NULL", "1"} \/ i + 1 > Len(s) THEN ParseError
    ELSE LET k == s[i]
             put(x) == [j \in DOMAIN f \cup {k} |-> IF j = k THEN x ELSE f[j]]
         IN  CASE s[i + 1] = "NULL" -> ParseMembers(s, i + 2, put(PyNone))
               [] s[i + 1] = "1" -> ParseMembers(s, i + 2, put(PyInt))
               [] s[i + 1] = "QUOTE" ->
                    LET r == ParseString(s, i + 2, <<>>)
                    IN  IF r.ok THEN ParseMembers(s, r.next, put(PyStr(r.val)))
                        ELSE ParseError
               [] OTHER -> ParseError

\* json.loads(text)
JsonLoads(text) ==
    IF text = <<"1">> THEN Parsed("int", NoFields)
    ELSE IF Len(text) >= 2 /\ text[1] = "LBRACE" THEN ParseMembers(text, 2, NoFields)
    ELSE ParseError

\* exc[key] on the parsed value
GetItem(p, key) ==
    IF p.kind # "object" THEN Raise("TypeError")
    ELSE IF key \notin DOMAIN p.f THEN Raise("KeyError")
    ELSE Ok(p.f[key])

-----------------------------------------------------------------------------
(* pickle and the classes' own serialize / deserialize.                     *)

\* e.serialize()
Serialize(e) ==
    LET k == ClassTable[e.cls].serialize
    IN  CASE k = "text" -> Ok(PyStr(<<"ser">> \o e.v))
          [] k = "bytes" -> Ok(PyBytes(<<"ser">> \o e.v))
          [] k = "object" -> Ok(PyObject)
          [] k = "exit" -> Raise("SystemExit")
          [] OTHER -> Raise("RuntimeError")

\* cls.deserialize(data), cls being the class c
Deserialize(c, data) ==
    IF ClassTable[c].deserialize = "inverse"
       /\ data.t \in {"str", "bytes"} /\ Len(data.v) >= 1 /\ Head(data.v) = "ser"
    THEN Ok(PyExc(c, Tail(data.v)))
    ELSE Raise("ValueError")

\* pickle.dumps(e): the class is saved by reference and must be the object
\* its module binds to its name; the result is a byte string.
PickleDumps(e) ==
    LET d == ClassTable[e.cls]
    IN  IF ModuleAttr(d.module, d.name) = e.cls
        THEN Ok(PyBytes(<<"pickle", d.module, d.name>> \o e.v))
        ELSE Raise("PicklingError")

\* pickle.loads(data): Python 3 wants bytes; Python 2 reads text too.  The
\* class is looked up by module and name where the call runs.
PickleLoads(data, ver, same) ==
    IF data.t \notin {"str", "bytes"} \/ (ver = 3 /\ data.t = "str") THEN Raise("TypeError")
    ELSE IF Len(data.v) < 3 \/ data.v[1] # "pickle" THEN Raise("UnpicklingError")
    ELSE IF data.v[2] \notin ImportableModules(same) THEN Raise("ImportError")
    ELSE IF ModuleAttr(data.v[2], data.v[3]) = "absent" THEN Raise("AttributeError")
    ELSE Ok(PyExc(ModuleAttr(data.v[2], data.v[3]), SubSeq(data.v, 4, Len(data.v))))

-----------------------------------------------------------------------------
(* RedisSentinelBackend._wrap_exc                                           *)

\* The capability that produces data: e.serialize() if hasattr(e, 'serialize').
WrapProducer(e) == IF ClassTable[e.cls].hasSerialize THEN "serialize" ELSE "pickle"

\* 'data': e.serialize() if hasattr(e, 'serialize') else pickle.dumps(e)
WrapData(e) == IF WrapProducer(e) = "serialize" THEN Serialize(e) ELSE PickleDumps(e)

\* The try body: Exception(json.dumps({...}))
WrapBody(e, ver) ==
    LET d == ClassTable[e.cls]
        ty == PyStr(<<d.name>>)
        mo == IF d.module = "None" THEN PyNone ELSE PyStr(<<d.module>>)
        da == WrapData(e)
    IN  IF ~da.ok THEN da
        ELSE LET text == JsonDumps(ty, mo, da.val, ver)
             IN  IF ~text.ok THEN text ELSE Ok(PyExc("Exception", text.val.v))

\* A narrower clause, "except Exception:", lets a BaseException through.
WrapCatchesException(err) == err # "SystemExit"

\* The bare except clause catches every exception, BaseException included.
WrapCatches(err) == TRUE

\* What the except clause returns: the exception it was given.
WrapFallback(e) == e

WrapExc(e, ver) ==
    LET r == WrapBody(e, ver)
    IN  IF r.ok THEN r
        ELSE IF WrapCatches(r.err) THEN Ok(WrapFallback(e))
        ELSE r

-----------------------------------------------------------------------------
(* RedisSentinelBackend._get_module and _unwrap_exc                         *)

\* modules.get(module_name) if that is a module, else import_module(module_name)
GetModule(name, same) ==
    IF name.t # "str" \/ Len(name.v) # 1 THEN
        (IF name.t = "str" THEN Raise("ImportError") ELSE Raise("AttributeError"))
    ELSE IF name.v[1] \in LoadedModules(same) THEN Ok(PyStr(name.v))
    ELSE IF name.v[1] \in ImportableModules(same) THEN Ok(PyStr(name.v))
    ELSE Raise("ImportError")

\* getattr(module, type): the class, as a value naming it
GetClass(mod, ty) ==
    IF ty.t # "str" THEN Raise("TypeError")
    ELSE IF Len(ty.v) # 1 \/ ModuleAttr(mod.v[1], ty.v[1]) = "absent"
    THEN Raise("AttributeError")
    ELSE Ok(PyStr(<<ModuleAttr(mod.v[1], ty.v[1])>>))

\* The class the envelope text of e names, resolved as lines 88-89 do.
UnwrapClass(e, same) ==
    LET p == JsonLoads(Str(e))
    IN  IF ~p.ok THEN Raise(p.err)
        ELSE LET mn == GetItem(p, "module")
             IN  IF ~mn.ok THEN mn
                 ELSE LET mod == GetModule(mn.val, same)
                      IN  IF ~mod.ok THEN mod
                          ELSE LET ty == GetItem(p, "type")
                               IN  IF ~ty.ok THEN ty ELSE GetClass(mod.val, ty.val)

\* The capability applied to data: cls.deserialize if hasattr(cls, 'deserialize').
UnwrapDecoder(c) == IF ClassTable[c].hasDeserialize THEN "deserialize" ELSE "pickle"

\* The try body.
UnwrapBody(e, ver, same) ==
    LET cls == UnwrapClass(e, same)
    IN  IF ~cls.ok THEN cls
        ELSE LET da == GetItem(JsonLoads(Str(e)), "data")
             IN  IF ~da.ok THEN da
                 ELSE IF UnwrapDecoder(cls.val.v[1]) = "deserialize"
                 THEN Deserialize(cls.val.v[1], da.val)
                 ELSE PickleLoads(da.val, ver, same)

\* A narrower clause, "except ValueError:", catches the parse error only.
UnwrapCatchesValueError(err) == err = "ValueError"

\* The bare except clause catches every exception.
UnwrapCatches(err) == TRUE

\* What the except clause returns: the value it was given.
UnwrapFallback(e) == e

UnwrapExc(e, ver, same) ==
    LET r == UnwrapBody(e, ver, same)
    IN  IF r.ok THEN r
        ELSE IF UnwrapCatches(r.err) THEN Ok(UnwrapFallback(e))
        ELSE r

\* The decoder _unwrap_exc reaches on e, "none" if the body fails before.
DecoderUsed(e, same) ==
    LET cls == UnwrapClass(e, same)
    IN  IF cls.ok /\ GetItem(JsonLoads(Str(e)), "data").ok
        THEN UnwrapDecoder(cls.val.v[1]) ELSE "none"

-----------------------------------------------------------------------------
(* The codec's inputs.                                                      *)

\* An envelope text as a client of the store may hold it.
EnvelopeText(ty, mo, da) == JsonDumps(ty, mo, da, 2).val.v

Messages ==
    { <<"boom">>,
      <<>>,
      <<"1">>,
      <<"LBRACE", "type">>,
      <<"LBRACE", "type", "QUOTE", "SerErr", "QUOTE", "RBRACE">>,
      <<"LBRACE", "module", "QUOTE", "app", "QUOTE", "RBRACE">>,
      EnvelopeText(PyStr(<<"SerErr">>), PyStr(<<"app">>), PyStr(<<"ser", "other">>)),
      EnvelopeText(PyStr(<<"SerErr">>), PyStr(<<"app">>), PyNone),
      EnvelopeText(PyStr(<<"SerErr">>), PyStr(<<"nowhere">>), PyStr(<<"ser", "other">>)),
      EnvelopeText(PyStr(<<"Missing">>), PyStr(<<"app">>), PyStr(<<"ser", "other">>)),
      EnvelopeText(PyNone, PyNone, PyStr(<<"ser", "QUOTE", "BSLASH">>)),
      EnvelopeText(PyStr(<<"MyError">>), PyStr(<<"app">>),
                   PyStr(<<"pickle", "app", "MyError", "other">>)) }

Idle == Ok(PyNone)

CodecStart ==
    /\ py \in {2, 3}
    /\ sameProcess \in BOOLEAN
    /\ exc \in {PyExc(c, m) : c \in ClassIds, m \in Messages}
    /\ cpc = "start"
    /\ wire = Idle
    /\ wrapFailed = FALSE
    /\ producer = "none"
    /\ out = Idle
    /\ unwrapFailed = FALSE
    /\ decoder = "none"

\* prepare_exception's call of _wrap_exc(exc)
Wrap ==
    /\ cpc = "start"
    /\ wire' = WrapExc(exc, py)
    /\ wrapFailed' = ~WrapBody(exc, py).ok
    /\ producer' = WrapProducer(exc)
    /\ cpc' = IF wire'.ok THEN "wrapped" ELSE "raised"
    /\ UNCHANGED <<py, sameProcess, exc, out, unwrapFailed, decoder>>
    /\ UNCHANGED <<backendVars, execVars>>

\* A value that reaches exception_to_python without having been wrapped by
\* this backend: the store holds what its clients wrote.
Fetch ==
    /\ cpc = "start"
    /\ wire' = Ok(exc)
    /\ cpc' = "fetched"
    /\ UNCHANGED <<py, sameProcess, exc, wrapFailed, producer, out, unwrapFailed, decoder>>
    /\ UNCHANGED <<backendVars, execVars>>

\* exception_to_python's call of _unwrap_exc on the transported value
Unwrap ==
    /\ cpc \in {"wrapped", "fetched"}
    /\ out' = UnwrapExc(wire.val, py, sameProcess)
    /\ unwrapFailed' = ~UnwrapBody(wire.val, py, sameProcess).ok
    /\ decoder' = DecoderUsed(wire.val, sameProcess)
    /\ cpc' = IF cpc = "wrapped" THEN "done" ELSE "unwrapped"
    /\ UNCHANGED <<py, sameProcess, exc, wire, wrapFailed, producer>>
    /\ UNCHANGED <<backendVars, execVars>>

-----------------------------------------------------------------------------
(* The failover-aware command executor: execute(command).                   *)

MaxAttemptBound == 3
MaxFail == 3

FailoverErrors == {"ConnectionError", "ReadOnlyError", "TimeoutError"}

\* An executor that takes every error for a sign of failover.
EveryErrorIndicative(err) == err # "ok"

\* An error is failover-indicative: a connection error, a read-only-replica
\* error or a timeout.
FailoverIndicative(err) == err \in FailoverErrors

\* A bound checked one attempt too late.
MayRetryOffByOne(attempt, bound) == attempt <= bound

\* Another attempt is allowed after the attempt-th send failed.
MayRetry(attempt, bound) == attempt < bound

\* What the primary answers the i-th send of the command.
Response(i) == IF i <= nFail THEN failKind ELSE finalResp

Returned(x) == [status |-> "returned", value |-> x]
Raised(x) == [status |-> "raised", value |-> x]
Pending == [status |-> "pending", value |-> "none"]

\* Step 1: with no endpoint cached, the resolver is asked first.
ExecBegin ==
    /\ epc = "idle"
    /\ epc' = IF endpoint = 0 THEN "resolve" ELSE "send"
    /\ UNCHANGED <<attemptBound, nFail, failKind, finalResp, sentinelUp, endpoint,
                   sends, invalidations, reresolutions, outcome>>
    /\ UNCHANGED <<codecVars, backendVars>>

\* Resolver.resolve: the current primary, or ResolutionError when no
\* Sentinel names one.  A resolution that follows an invalidation is a
\* re-resolution.
ExecResolve ==
    /\ epc = "resolve"
    /\ IF sentinelUp
       THEN /\ endpoint' = sends + 1
            /\ reresolutions' = IF invalidations > 0 THEN reresolutions + 1 ELSE reresolutions
            /\ epc' = "send"
            /\ outcome' = outcome
       ELSE /\ outcome' = Raised("ResolutionError")
            /\ epc' = "done"
            /\ UNCHANGED <<endpoint, reresolutions>>
    /\ UNCHANGED <<attemptBound, nFail, failKind, finalResp, sentinelUp, sends, invalidations>>
    /\ UNCHANGED <<codecVars, backendVars>>

\* Steps 2, 3 and 5: the command is sent to the cached endpoint; a result
\* is returned, a failure that is not failover-indicative or that exhausts
\* the attempts is raised unchanged, and any other failure goes to step 4.
ExecSend ==
    /\ epc = "send"
    /\ sends' = sends + 1
    /\ LET r == Response(sends')
       IN  IF r = "ok" THEN outcome' = Returned("ok") /\ epc' = "done"
           ELSE IF FailoverIndicative(r) /\ MayRetry(sends', attemptBound)
           THEN outcome' = outcome /\ epc' = "failover"
           ELSE outcome' = Raised(r) /\ epc' = "done"
    /\ UNCHANGED <<attemptBound, nFail, failKind, finalResp, sentinelUp, endpoint,
                   invalidations, reresolutions>>
    /\ UNCHANGED <<codecVars, backendVars>>

\* Step 4: the cached endpoint is invalidated, and resolved again.
ExecFailover ==
    /\ epc = "failover"
    /\ endpoint' = 0
    /\ invalidations' = invalidations + 1
    /\ epc' = "resolve"
    /\ UNCHANGED <<attemptBound, nFail, failKind, finalResp, sentinelUp, sends,
                   reresolutions, outcome>>
    /\ UNCHANGED <<codecVars, backendVars>>

ExecStart ==
    /\ attemptBound \in 1..MaxAttemptBound
    /\ nFail \in 0..MaxFail
    /\ failKind \in FailoverErrors
    /\ finalResp \in {"ok", "ResponseError"}
    /\ sentinelUp \in BOOLEAN
    /\ epc = "idle"
    /\ endpoint \in {0, 1}
    /\ sends = 0
    /\ invalidations = 0
    /\ reresolutions = 0
    /\ outcome = Pending

\* The executor while other parts are exercised.
ExecIdle ==
    /\ attemptBound = 1
    /\ nFail = 0
    /\ failKind = "ConnectionError"
    /\ finalResp = "ok"
    /\ sentinelUp = TRUE
    /\ epc = "off"
    /\ endpoint = 0
    /\ sends = 0
    /\ invalidations = 0
    /\ reresolutions = 0
    /\ outcome = Pending

ExecNext == ExecBegin \/ ExecResolve \/ ExecSend \/ ExecFailover

-----------------------------------------------------------------------------
(* RedisSentinelBackend.__init__                                            *)

NThreads == 2
MaxAccesses == 2
Threads == 1..NThreads

\* socket_timeout's default, 0.1 s, in milliseconds
DefaultSocketTimeout == 100

EmptyDict == [k \in {} |-> 0]

\* dict.update: d with the entries of e added, those of e winning
Update(d, e) == [k \in DOMAIN d \cup DOMAIN e |-> IF k \in DOMAIN e THEN e[k] ELSE d[k]]

NoError == [type |-> "none", arg |-> "none"]
KeyError(k) == [type |-> "KeyError", arg |-> k]

\* An optional dict: None, or a dict d.
NoneOptions == [given |-> FALSE, d |-> EmptyDict]
Options(d) == [given |-> TRUE, d |-> d]

\* Python's truth value of an optional dict: None and {} are false.
Truthy(o) == o.given /\ DOMAIN o.d # {}

OptionKeys == {"sentinels", "service_name", "socket_timeout"}

\* The value a source (the argument, the configuration, the base class's
\* connection parameters) gives a key; timeouts are in milliseconds.
Val(tag, k) ==
    IF k = "socket_timeout"
    THEN (CASE tag = "arg" -> 500 [] tag = "conf" -> 250 [] OTHER -> 900)
    ELSE <<tag, k>>

Dict(tag, keys) == [k \in keys |-> Val(tag, k)]

ArgChoices == {NoneOptions} \cup {Options(Dict("arg", S)) : S \in SUBSET OptionKeys}
ConfChoices ==
    {NoneOptions, Options(EmptyDict), Options(Dict("conf", OptionKeys)),
     Options(Dict("conf", {"sentinels", "service_name"})),
     Options(Dict("conf", {"service_name"}))}
ConnChoices ==
    {Dict("conn", {"host", "port"}),
     Dict("conn", {"host", "port", "socket_timeout"}),
     Dict("conn", {"host", "port"} \cup OptionKeys)}

\* transport_options or _get('CELERY_RESULT_BACKEND_TRANSPORT_OPTIONS') or {}
Adopted(arg, conf) ==
    IF Truthy(arg) THEN arg.d ELSE IF Truthy(conf) THEN conf.d ELSE EmptyDict

\* self.transport_options[key]
Subscript(o, key) ==
    IF key \in DOMAIN o THEN [ok |-> TRUE, val |-> o[key], err |-> NoError]
    ELSE [ok |-> FALSE, val |-> <<>>, err |-> KeyError(key)]

\* self.transport_options.get(key): None where the key is missing
SubscriptOrNone(o, key) ==
    [ok |-> TRUE, val |-> IF key \in DOMAIN o THEN o[key] ELSE <<"None">>, err |-> NoError]

\* self.transport_options['sentinels'] and ['service_name']
Required(o, key) == Subscript(o, key)

\* self.transport_options.get('socket_timeout', 0.1)
SocketTimeout(o) ==
    IF "socket_timeout" \in DOMAIN o THEN o["socket_timeout"] ELSE DefaultSocketTimeout

\* __init__: the base class's __init__ sets connparams; the attributes are
\* assigned in order, and the first missing required key raises KeyError.
Construct ==
    /\ bpc = "new"
    /\ LET o == Adopted(argOptions, confOptions)
           s == Required(o, "sentinels")
           n == Required(o, "service_name")
           a1 == [k \in {"transport_options"} |-> o]
           a2 == Update(a1, [k \in {"sentinels"} |-> s.val])
           a3 == Update(a2, [k \in {"service_name"} |-> n.val])
           a4 == Update(a3, [k \in {"socket_timeout"} |-> SocketTimeout(o)])
       IN  IF ~s.ok THEN bpc' = "failed" /\ error' = s.err /\ self' = a1
           ELSE IF ~n.ok THEN bpc' = "failed" /\ error' = n.err /\ self' = a2
           ELSE bpc' = "ready" /\ error' = NoError /\ self' = a4
    /\ connparams' = conn0
    /\ UNCHANGED <<argOptions, confOptions, conn0, clients, tpc, tval, accesses, seen>>
    /\ UNCHANGED <<codecVars, execVars>>

-----------------------------------------------------------------------------
(* RedisSentinelBackend.client, a kombu cached_property: __get__ returns    *)
(* obj.__dict__['client'] if present, else calls client(), stores the       *)
(* result in obj.__dict__ and returns it.  It takes no lock.                *)

\* The Sentinel-specific fields client() puts into the parameters.
SentinelFields(se) ==
    [k \in OptionKeys |-> se[k]]

\* A merge in which an entry already in connparams is kept.
ClientParamsKeep(conn, se) == Update(SentinelFields(se), conn)

\* params = self.connparams; params.update({...})
ClientParams(conn, se) == Update(conn, SentinelFields(se))

\* __get__, first part: the cached client is returned if there is one.
ClientGet(t) ==
    /\ bpc = "ready" /\ tpc[t] = "idle" /\ accesses[t] < MaxAccesses
    /\ IF "client" \in DOMAIN self
       THEN /\ seen' = seen \cup {self["client"]}
            /\ accesses' = [accesses EXCEPT ![t] = @ + 1]
            /\ tpc' = tpc
       ELSE /\ tpc' = [tpc EXCEPT ![t] = "build"]
            /\ UNCHANGED <<seen, accesses>>
    /\ UNCHANGED <<argOptions, confOptions, conn0, bpc, error, self, connparams,
                   clients, tval>>
    /\ UNCHANGED <<codecVars, execVars>>

\* client(): connparams is updated in place and handed to the factory,
\* which returns a new client.
ClientBuild(t) ==
    /\ tpc[t] = "build"
    /\ connparams' = ClientParams(connparams, self)
    /\ clients' = Append(clients, connparams')
    /\ tval' = [tval EXCEPT ![t] = Len(clients')]
    /\ tpc' = [tpc EXCEPT ![t] = "store"]
    /\ UNCHANGED <<argOptions, confOptions, conn0, bpc, error, self, accesses, seen>>
    /\ UNCHANGED <<codecVars, execVars>>

\* __get__, last part: value = obj.__dict__['client'] = client(); return value
ClientStore(t) ==
    /\ tpc[t] = "store"
    /\ self' = Update(self, [k \in {"client"} |-> tval[t]])
    /\ seen' = seen \cup {tval[t]}
    /\ accesses' = [accesses EXCEPT ![t] = @ + 1]
    /\ tpc' = [tpc EXCEPT ![t] = "idle"]
    /\ tval' = [tval EXCEPT ![t] = 0]
    /\ UNCHANGED <<argOptions, confOptions, conn0, bpc, error, connparams, clients>>
    /\ UNCHANGED <<codecVars, execVars>>

BackendStart ==
    /\ argOptions \in ArgChoices
    /\ confOptions \in ConfChoices
    /\ conn0 \in ConnChoices
    /\ bpc = "new"
    /\ error = NoError
    /\ self = EmptyDict
    /\ connparams = EmptyDict
    /\ clients = <<>>
    /\ tpc = [t \in Threads |-> "idle"]
    /\ tval = [t \in Threads |-> 0]
    /\ accesses = [t \in Threads |-> 0]
    /\ seen = {}

\* The backend while the codec alone is exercised.
BackendIdle ==
    /\ argOptions = NoneOptions
    /\ confOptions = NoneOptions
    /\ conn0 = EmptyDict
    /\ bpc = "new"
    /\ error = NoError
    /\ self = EmptyDict
    /\ connparams = EmptyDict
    /\ clients = <<>>
    /\ tpc = [t \in Threads |-> "idle"]
    /\ tval = [t \in Threads |-> 0]
    /\ accesses = [t \in Threads |-> 0]
    /\ seen = {}

\* The codec while the backend alone is exercised.
CodecIdle ==
    /\ py = 3
    /\ sameProcess = TRUE
    /\ exc = PyExc("Exception", <<>>)
    /\ cpc = "idle"
    /\ wire = Idle
    /\ wrapFailed = FALSE
    /\ producer = "none"
    /\ out = Idle
    /\ unwrapFailed = FALSE
    /\ decoder = "none"

Init == BackendStart /\ CodecIdle /\ ExecIdle

Next ==
    \/ Construct
    \/ \E t \in Threads : ClientGet(t)
    \/ \E t \in Threads : ClientBuild(t)
    \/ \E t \in Threads : ClientStore(t)

Spec == Init /\ [][Next]_vars

CodecInit == CodecStart /\ BackendIdle /\ ExecIdle

ExecInit == ExecStart /\ BackendIdle /\ CodecIdle

SpecExec == ExecInit /\ [][ExecNext]_vars

CodecNext == Wrap \/ Fetch \/ Unwrap

SpecCodec == CodecInit /\ [][CodecNext]_vars

-----------------------------------------------------------------------------
(* Properties of the codec, checked under SpecCodec.                        *)

AfterWrap == cpc \in {"wrapped", "raised", "done"}
AfterUnwrap == cpc \in {"done", "unwrapped"}

\* C1: _wrap_exc never raises, and whenever a step of building the envelope
\* fails it returns the exception it was given, unmodified.
C1_WrapNeverRaises ==
    AfterWrap => /\ wire.ok
                 /\ wrapFailed => wire.val = exc
                 /\ ~wrapFailed => wire.val.cls = "Exception"

\* C1 witness: serialize raised SystemExit and the original came back.
C1_Witness ==
    /\ cpc = "wrapped" /\ wrapFailed
    /\ Serialize(exc).err = "SystemExit"
    /\ wire = Ok(exc)

\* C2: _unwrap_exc never raises, and whenever parsing, the field lookups,
\* the module or class lookup or the decoding fails it returns its input.
C2_UnwrapNeverRaises ==
    AfterUnwrap => /\ out.ok
                   /\ unwrapFailed => out.val = wire.val

\* C2 witness: the text parsed as an envelope, a later step failed, and the
\* input came back.
C2_Witness ==
    /\ cpc = "unwrapped" /\ unwrapFailed
    /\ JsonLoads(Str(wire.val)).kind = "object"
    /\ out = Ok(wire.val)

\* The class exposes both capabilities.
ExposesBoth(c) == ClassTable[c].hasSerialize /\ ClassTable[c].hasDeserialize

\* The class exposes neither capability.
ExposesNeither(c) == ~ClassTable[c].hasSerialize /\ ~ClassTable[c].hasDeserialize

\* Where _unwrap_exc runs, the class's module can be had and binds the
\* class's name to the class itself.
Resolvable(c, same) ==
    /\ ClassTable[c].module \in ImportableModules(same)
    /\ ModuleAttr(ClassTable[c].module, ClassTable[c].name) = c

\* serialize returns a representation json.dumps accepts, and deserialize
\* reconstructs the instance from it.
Codec(c, ver) ==
    /\ ExposesBoth(c)
    /\ ClassTable[c].deserialize = "inverse"
    /\ \/ ClassTable[c].serialize = "text"
       \/ ClassTable[c].serialize = "bytes" /\ ver = 2

\* C3 as stated: for every exception whose class exposes serialize and
\* deserialize, unwrap(wrap(e)) is an object of e's class with e's state.
C3_RoundTripOriginal ==
    (cpc = "done" /\ ExposesBoth(exc.cls)) => out = Ok(exc)

\* C3 amended: the round trip returns an object of e's class with e's state
\* when serialize returns text json can encode, deserialize inverts it, and
\* the class is bound to its name in its module where unwrap runs.
C3_RoundTrip ==
    (cpc = "done" /\ Codec(exc.cls, py) /\ Resolvable(exc.cls, sameProcess))
        => /\ out = Ok(exc)
           /\ wire.val # exc
           /\ out.val # wire.val

\* C3 witness: an envelope was built, carried the serialize output, and
\* deserialize rebuilt the exception; the message held quotes to escape.
C3_Witness ==
    /\ cpc = "done" /\ exc.cls = "SerErr" /\ ~wrapFailed
    /\ decoder = "deserialize"
    /\ "QUOTE" \in {exc.v[i] : i \in DOMAIN exc.v}
    /\ out = Ok(exc)

\* The original message can be had from o: o carries it, or o is the
\* envelope whose data is the generic payload of e.
Recoverable(o, e) ==
    \/ o.v = e.v
    \/ LET p == JsonLoads(o.v)
       IN  /\ p.ok /\ p.kind = "object" /\ "data" \in DOMAIN p.f
           /\ PickleDumps(e).ok
           /\ p.f["data"].v = PickleDumps(e).val.v

\* C4: for an exception of a class exposing neither capability,
\* unwrap(wrap(e)) is exception-shaped and the original message can be
\* recovered from it, whichever branch wrap took.
C4_GenericRoundTrip ==
    (cpc = "done" /\ ExposesNeither(exc.cls))
        => /\ out.ok /\ out.val.t = "exc"
           /\ Recoverable(out.val, exc)

\* C9: data produced by serialize is decoded by deserialize only, and data
\* produced by the generic fallback by the generic fallback only.
C9_Symmetric ==
    (cpc = "done" /\ ~wrapFailed /\ decoder # "none")
        => (producer = "serialize") = (decoder = "deserialize")

-----------------------------------------------------------------------------
(* Properties of construction and of the cached client, checked under Spec. *)

Lacks(d) == "sentinels" \notin DOMAIN d \/ "service_name" \notin DOMAIN d

\* The transport options as given: the argument if one was passed, whatever
\* it holds; otherwise the configured value; otherwise none at all.
Given(arg, conf) == IF arg.given THEN arg.d ELSE IF conf.given THEN conf.d ELSE EmptyDict

C8_ExactlyOnce ==
    /\ Len(clients) <= 1
    /\ Cardinality(seen) <= 1

\* C10: every call of the client factory gets the base connection
\* parameters with sentinels and service_name of the transport options and
\* socket_timeout of the transport options (0.1 s when absent), these
\* three overriding entries of the same name; the transport options are
\* as adopted at construction.
C10_ClientParams ==
    (bpc = "ready") =>
        LET o == self["transport_options"]
        IN  /\ o = Adopted(argOptions, confOptions)
            /\ \A i \in DOMAIN clients :
                /\ DOMAIN clients[i] = DOMAIN conn0 \cup OptionKeys
                /\ clients[i]["sentinels"] = o["sentinels"]
                /\ clients[i]["service_name"] = o["service_name"]
                /\ clients[i]["socket_timeout"] =
                      (IF "socket_timeout" \in DOMAIN o THEN o["socket_timeout"]
                       ELSE DefaultSocketTimeout)
                /\ \A k \in DOMAIN conn0 \ OptionKeys : clients[i][k] = conn0[k]

\* C10 witness: a client was built from connection parameters that held
\* their own socket_timeout, and got the default instead.
C10_Witness ==
    /\ clients # <<>>
    /\ "socket_timeout" \in DOMAIN conn0
    /\ "socket_timeout" \notin DOMAIN self["transport_options"]
    /\ clients[1]["socket_timeout"] = DefaultSocketTimeout
    /\ conn0["socket_timeout"] # DefaultSocketTimeout

-----------------------------------------------------------------------------
(* Properties of the executor, checked under SpecExec.                      *)

\* C6 as stated: with the first nFail (at least one) sends failing on a failover error and
\* the next succeeding, execute returns the result after exactly one
\* re-resolution when nFail is below the attempt bound, and raises the
\* last error when nFail is at or above it.
C6_RetryPolicyOriginal ==
    (epc = "done" /\ finalResp = "ok" /\ sentinelUp /\ nFail >= 1) =>
        IF nFail < attemptBound
        THEN outcome = Returned("ok") /\ reresolutions = 1
        ELSE outcome = Raised(failKind)

\* C6 amended: below the bound execute returns the result after exactly
\* nFail re-resolutions, one for each failed send; at or above the bound it
\* stops after attemptBound sends and raises the last error.
C6_RetryPolicy ==
    (epc = "done" /\ finalResp = "ok" /\ sentinelUp) =>
        IF nFail < attemptBound
        THEN /\ outcome = Returned("ok")
             /\ reresolutions = nFail /\ invalidations = nFail
             /\ sends = nFail + 1 /\ endpoint # 0
        ELSE /\ outcome = Raised(failKind)
             /\ sends = attemptBound

\* C6 witness: two failed sends below a bound of three, two re-resolutions,
\* and the result returned.
C6_Witness ==
    /\ epc = "done" /\ nFail = 2 /\ attemptBound = 3
    /\ outcome = Returned("ok") /\ reresolutions = 2

\* C7: an error on the first attempt that is not failover-indicative is
\* raised unchanged after that single send, with no invalidation of the
\* cached endpoint and no re-resolution.
C7_NonMasking ==
    (epc = "done" /\ sends >= 1 /\ nFail = 0 /\ finalResp = "ResponseError") =>
        /\ outcome = Raised("ResponseError")
        /\ sends = 1 /\ invalidations = 0 /\ reresolutions = 0
        /\ endpoint # 0

\* C7 witness: the first send failed on a command error and execute raised.
C7_Witness ==
    /\ epc = "done" /\ sends = 1 /\ nFail = 0
    /\ outcome = Raised("ResponseError") /\ attemptBound > 1

====
